---- MODULE Spec2Model ----
(***************************************************************************)
(* A model of the swerve drivetrain of swerve-rs: the angle and vector     *)
(* arithmetic of types.rs, the per-module target optimisation of           *)
(* swerve_module.rs, the motion shaping and inverse kinematics of          *)
(* drivetrain.rs and the two cooperative tasks of lib.rs.                  *)
(*                                                                         *)
(* Numbers.  The program computes in f32/f64.  The model computes in       *)
(* fixed point: an angle is an integer number of degrees (PI = 180), a     *)
(* speed an integer number of cm/s, a length an integer number of cm.      *)
(* sin, cos and atan are tabulated to that precision.  The sign of a       *)
(* floating-point zero is not tracked: where the code reads it             *)
(* (f32::signum of a zero), the sign is an extra argument that the         *)
(* actions draw from {1, -1}.                                              *)
(***************************************************************************)
EXTENDS Integers, Sequences, FiniteSets, TLC

(***************************************************************************)
(* Bounds of the model.                                                    *)
(***************************************************************************)
\* the iterations of the teleop loop that are followed
MaxCycles == 2
\* the presses of the X button that are followed
MaxPresses == 1
\* the angles given to the pure functions span -MaxTurns .. MaxTurns turns
MaxTurns == 2
\* the speeds given to the pure functions span -MaxSpeed .. MaxSpeed m/s
MaxSpeed == 1

(***************************************************************************)
(* Program constants.                                                      *)
(***************************************************************************)
\* std::f32::consts::PI, in degrees
PI == 180
\* LOW_SPEED_CUTOFF = 0.01 m/s, in cm/s
LOW_SPEED_CUTOFF == 1
\* MAX_VELOCITY_LIMIT = 4.8 m/s (and the 4.8 of set_limit), in cm/s
MAX_VELOCITY_LIMIT == 480
\* MeterPerSecond::new(4.0): the drive speed of a full stick deflection, in cm/s
STICK_SPEED == 400

TwoPi == 2 * PI
HalfPi == PI \div 2

(***************************************************************************)
(* Fixed-point arithmetic.                                                 *)
(***************************************************************************)
Abs(n) == IF n < 0 THEN -n ELSE n

\* n / d rounded to the nearest integer (d > 0)
RoundDiv(n, d) == (2 * n + d) \div (2 * d)

Min(a, b) == IF a < b THEN a ELSE b

Max(a, b) == IF a < b THEN b ELSE a

\* f32::clamp
Clamp(v, lo, hi) == Max(lo, Min(hi, v))

RECURSIVE SqrtSearch(_, _, _)
SqrtSearch(n, lo, hi) ==
  IF hi - lo <= 1 THEN lo
  ELSE LET mid == (lo + hi) \div 2
       IN  IF mid * mid <= n THEN SqrtSearch(n, mid, hi)
           ELSE SqrtSearch(n, lo, mid)

\* f32::sqrt, rounded to the nearest integer
Sqrt(n) ==
  LET f == SqrtSearch(n, 0, Min(n, 46339) + 1)
  IN  IF n - f * f > f THEN f + 1 ELSE f

\* 10000 * sin(d degrees), d = 0 .. 90
SinTable ==
  <<
    0, 175, 349, 523, 698, 872, 1045, 1219, 1392, 1564, 1736, 1908, 2079,
    2250, 2419, 2588, 2756, 2924, 3090, 3256, 3420, 3584, 3746, 3907, 4067,
    4226, 4384, 4540, 4695, 4848, 5000, 5150, 5299, 5446, 5592, 5736, 5878,
    6018, 6157, 6293, 6428, 6561, 6691, 6820, 6947, 7071, 7193, 7314, 7431,
    7547, 7660, 7771, 7880, 7986, 8090, 8192, 8290, 8387, 8480, 8572, 8660,
    8746, 8829, 8910, 8988, 9063, 9135, 9205, 9272, 9336, 9397, 9455, 9511,
    9563, 9613, 9659, 9703, 9744, 9781, 9816, 9848, 9877, 9903, 9925, 9945,
    9962, 9976, 9986, 9994, 9998, 10000
  >>

\* 10000 * tan((d + 1/2) degrees), d = 0 .. 89
TanHalfTable ==
  <<
    87, 262, 437, 612, 787, 963, 1139, 1317, 1495, 1673, 1853, 2035, 2217,
    2401, 2586, 2773, 2962, 3153, 3346, 3541, 3739, 3939, 4142, 4348, 4557,
    4770, 4986, 5206, 5430, 5658, 5890, 6128, 6371, 6619, 6873, 7133, 7400,
    7673, 7954, 8243, 8541, 8847, 9163, 9490, 9827, 10176, 10538, 10913,
    11303, 11708, 12131, 12572, 13032, 13514, 14019, 14550, 15108, 15697,
    16319, 16977, 17675, 18418, 19210, 20057, 20965, 21943, 22998, 24142,
    25386, 26746, 28239, 29887, 31716, 33759, 36059, 38667, 41653, 45107,
    49152, 53955, 59758, 66912, 75958, 87769, 103854, 127062, 163499, 229038,
    381885, 1145887
  >>

\* 10000 * sin(a), a any integer number of degrees
Sin(a) ==
  LET r == a % TwoPi
  IN  IF r <= HalfPi THEN SinTable[r + 1]
      ELSE IF r <= PI THEN SinTable[PI - r + 1]
      ELSE IF r <= PI + HalfPi THEN -SinTable[r - PI + 1]
      ELSE -SinTable[TwoPi - r + 1]

\* 10000 * cos(a)
Cos(a) == Sin(a + HalfPi)

\* the number of entries of TanHalfTable that are at most p / q, all of them
\* among the first hi and the first lo among them
RECURSIVE AtanSearch(_, _, _, _)
AtanSearch(p, q, lo, hi) ==
  IF lo = hi THEN lo
  ELSE LET mid == (lo + hi + 1) \div 2
       IN  IF p * 10000 >= q * TanHalfTable[mid] THEN AtanSearch(p, q, mid, hi)
           ELSE AtanSearch(p, q, lo, mid - 1)

\* atan(p / q) in degrees, rounded to the nearest, for p >= 0 and q > 0
AtanPos(p, q) == AtanSearch(p, q, 0, Len(TanHalfTable))

\* f32::atan(y / x), x # 0
Atan(y, x) ==
  IF (y < 0) = (x < 0) THEN AtanPos(Abs(y), Abs(x))
  ELSE -AtanPos(Abs(y), Abs(x))

\* f32::signum; zs is the sign of the zero when v is one
Signum(v, zs) == IF v > 0 THEN 1 ELSE IF v < 0 THEN -1 ELSE zs

\* m * a.raw(): a length or speed times an angle in radians (pi = 355/113)
MulRad(m, a) == RoundDiv(m * a * 355, PI * 113)

(***************************************************************************)
(* types.rs: RadianExt.                                                    *)
(***************************************************************************)
normalize(angle) ==
  IF angle > TwoPi THEN angle % TwoPi
  ELSE IF angle < 0 THEN TwoPi - ((-angle) % TwoPi)
  ELSE angle

\* RadianExt::optimize from line 173 on: a and b are the normalized angles
OptimizeNormalized(a, b) ==
  LET b1 == b + TwoPi
      b2 == b - TwoPi
      diff == Abs(a - b)
      diff1 == Abs(a - b1)
      diff2 == Abs(a - b2)
  IN  IF diff < diff1 /\ diff < diff2 THEN <<a, b>>
      ELSE IF diff1 < diff /\ diff1 < diff2 THEN <<a, b1>>
      ELSE <<a, b2>>

\* RadianExt::optimize(self, other): <<self', other'>>
RadianOptimize(self, other) ==
  OptimizeNormalized(normalize(self), normalize(other))

(***************************************************************************)
(* types.rs: Vector.                                                       *)
(***************************************************************************)
Vector(x, y) == [x |-> x, y |-> y]

ZeroVector == Vector(0, 0)

VectorAdd(v, w) == Vector(v.x + w.x, v.y + w.y)

rotate_90(v) == Vector(-v.y, v.x)

\* Vector::scale by turn_rate.raw(), an angle in radians
ScaleRad(v, a) == Vector(MulRad(v.x, a), MulRad(v.y, a))

field_relative(v, orientation) ==
  LET sin == Sin(-orientation)
      cos == Cos(-orientation)
  IN  Vector(RoundDiv(v.x * cos - v.y * sin, 10000),
             RoundDiv(v.x * sin - v.y * cos, 10000))

\* without the PI of the left half plane
ThetaNoQuadrant(v, zs) ==
  IF v.x = 0 THEN HalfPi * Signum(v.y, zs)
  ELSE normalize(Atan(v.y, v.x))

\* Vector::theta; zs is the sign of y when y is a zero
theta(v, zs) ==
  IF v.x = 0 THEN HalfPi * Signum(v.y, zs)
  ELSE normalize(IF v.x < 0 THEN Atan(v.y, v.x) + PI ELSE Atan(v.y, v.x))

magnitude(v) == Sqrt(v.x * v.x + v.y * v.y)

\* the signs a zero y component can have where theta reads it
ZeroSigns(v) == IF v = ZeroVector THEN {1, -1} ELSE {1}

(***************************************************************************)
(* types.rs: SwerveState.                                                  *)
(***************************************************************************)
SwerveState(angle, drive) == [angle |-> angle, drive |-> drive]

\* From<Vector<MeterPerSecond>> for SwerveState
StateFromVector(v, zs) == SwerveState(theta(v, zs), magnitude(v))

\* From<SwerveState> for Vector<MeterPerSecond>
VectorFromState(s) ==
  Vector(RoundDiv(Cos(s.angle) * s.drive, 10000),
         RoundDiv(Sin(s.angle) * s.drive, 10000))

\* SwerveState::stop
StateStop(s) == [s EXCEPT !.drive = 0]

\* SwerveState::optimize from line 133 on: new_angle and old_angle are the
\* normalized angles
OptimizeState(self, new_angle, old_angle) ==
  LET diff == new_angle - old_angle
  IN  IF Abs(diff) < HalfPi THEN self
      ELSE IF diff < 0
      THEN SwerveState(new_angle + TwoPi, -self.drive)
      ELSE SwerveState(new_angle - TwoPi, -self.drive)

\* SwerveState::optimize(self, old)
StateOptimize(self, old) ==
  OptimizeState(self, normalize(self.angle), normalize(old.angle))

(***************************************************************************)
(* swerve_module.rs: SwerveModule.                                         *)
(***************************************************************************)
Modules == 1..4

\* const ANGLE_OFFSETS
ANGLE_OFFSETS == <<0, 0, 0, 0>>

\* Drivetrain::positions: (1, 1), (1, -1), (-1, 1), (-1, -1) metres, in cm
positions ==
  <<Vector(100, 100), Vector(100, -100), Vector(-100, 100), Vector(-100, -100)>>

\* SwerveModule::new: current_state is the encoder's reading at speed 0; no
\* reference has been given to the motors yet
NewModule(starting_turn, offset) ==
  [current_state |-> SwerveState(starting_turn, 0),
   offset |-> offset,
   turn_ref |-> starting_turn + offset,
   drive_ref |-> 0]

\* SwerveModule::set_target from line 116 on: state is the target optimized
\* against current_state (line 115, Optimized below); outcome is "ok", or
\* the set_reference call ("turn", "drive") that returned the error.
\* current_state is assigned before the two set_reference calls; an error of
\* the first skips the second
Command(m, state, outcome) ==
  [m EXCEPT !.current_state = state,
            !.turn_ref = IF outcome = "turn" THEN @ ELSE state.angle + m.offset,
            !.drive_ref = IF outcome = "ok" THEN state.drive ELSE @]

(***************************************************************************)
(* robotrs::math::filter::SlewRateLimiter, as drivetrain.rs uses it: the   *)
(* value moves towards the sample by at most limit * dt.  step is that     *)
(* product for the time that elapsed since the last call.                  *)
(***************************************************************************)
SlewApply(last, sample, step) == last + Clamp(sample - last, -step, step)

\* limit * dt of the angle limiter after set_limit: a quarter turn while the
\* limit is positive, which it is below 4.8 m/s
AngleSteps(last_mag) ==
  IF last_mag < MAX_VELOCITY_LIMIT THEN {HalfPi} ELSE {0}

\* limit * dt of the magnitude limiter: 2 m/s
MagSteps == {STICK_SPEED \div 2}

(***************************************************************************)
(* drivetrain.rs: Drivetrain.                                              *)
(***************************************************************************)
\* A failure of the cycle: the module whose set_target returns the error
\* (0: none) and the set_reference call that failed
NoFailure == [at |-> 0, stage |-> "ok"]

Failures ==
  {NoFailure} \cup {[at |-> k, stage |-> s] : k \in Modules, s \in {"turn", "drive"}}

\* what set_target returns for module i in a cycle with failure f
OutcomeAt(f, i) == IF f.at = i THEN f.stage ELSE "ok"

\* the loop over the modules stops at the first error
Reached(f, i) == f.at = 0 \/ i <= f.at

\* the velocity vector set_input_raw computes for module i (lines 50 to 56)
ModuleVector(drive, turn_rate, yaw, i) ==
  LET drive_vector == ScaleRad(rotate_90(positions[i]), turn_rate)
  IN  VectorAdd(field_relative(drive, yaw), drive_vector)

\* the velocity vectors of one call of set_input_raw
ModuleVectors(drive, turn_rate, yaw) ==
  <<ModuleVector(drive, turn_rate, yaw, 1), ModuleVector(drive, turn_rate, yaw, 2),
    ModuleVector(drive, turn_rate, yaw, 3), ModuleVector(drive, turn_rate, yaw, 4)>>

\* the signs of the zero y components of the module vectors
ZeroSignChoices(vecs) ==
  {zs \in [Modules -> {1, -1}] : \A i \in Modules : zs[i] \in ZeroSigns(vecs[i])}

\* the states set_target stores for the targets: the targets optimized
\* against the modules' current states
Optimized(mods, targets) ==
  <<StateOptimize(targets[1], mods[1].current_state),
    StateOptimize(targets[2], mods[2].current_state),
    StateOptimize(targets[3], mods[3].current_state),
    StateOptimize(targets[4], mods[4].current_state)>>

\* the loop over the modules of set_input_raw and of brake: set_target for
\* each module until one returns an error; states are the optimized targets
CommandAll(mods, states, f) ==
  [i \in Modules |->
     IF Reached(f, i) THEN Command(mods[i], states[i], OutcomeAt(f, i))
     ELSE mods[i]]

\* the targets set_input_raw converts the velocity vectors to (.into())
Targets(vecs, zs) ==
  <<StateFromVector(vecs[1], zs[1]), StateFromVector(vecs[2], zs[2]),
    StateFromVector(vecs[3], zs[3]), StateFromVector(vecs[4], zs[4])>>

\* the derating of set_input: mag * (1 - |delta| / PI)^3, the division in two
\* steps
Derate(mag, delta) ==
  LET c == PI - Abs(delta)
  IN  RoundDiv(RoundDiv(mag * c * c, PI) * c, PI * PI)

\* set_input, lines 99 to 104: the second optimize and the derating
ShapeDerated(target_angle, target_mag, last_angle, last_mag, flip, o2) ==
  [target_angle |-> o2[1], last_angle |-> o2[2],
   target_mag |-> Derate(target_mag, o2[1] - o2[2]),
   last_mag |-> last_mag, flipped |-> flip]

\* set_input, lines 88 to 97: "if the angle change is greater than 90
\* degrees, drive backwards"
ShapeFlipped(target_mag, last_mag, o1, flip) ==
  ShapeDerated(IF flip THEN o1[1] + PI ELSE o1[1],
               IF flip THEN -target_mag ELSE target_mag,
               o1[2], last_mag, flip,
               RadianOptimize(IF flip THEN o1[1] + PI ELSE o1[1], o1[2]))

\* set_input that never drives backwards
ShapeResolvedNoFlip(target_mag, last_mag, o1) ==
  ShapeFlipped(target_mag, last_mag, o1, FALSE)

\* set_input, line 86: the first optimize
ShapeResolved(target_mag, last_mag, o1) ==
  ShapeFlipped(target_mag, last_mag, o1, Abs(o1[1] - o1[2]) > HalfPi)

\* set_input, lines 73 to 84: "Correct angles when moving very slowly"
ShapeCorrected(target_angle, target_mag, last_angle, last_mag) ==
  ShapeResolved(target_mag, last_mag,
    RadianOptimize(
      IF target_mag < LOW_SPEED_CUTOFF
      THEN (IF last_mag < LOW_SPEED_CUTOFF THEN target_angle ELSE last_angle)
      ELSE target_angle,
      IF last_mag < LOW_SPEED_CUTOFF THEN target_angle ELSE last_angle))

\* Drivetrain::set_input up to the rate limiters (lines 70 to 104): the
\* target angle and magnitude it hands to them
Shape(drive, last, zsT, zsL) ==
  ShapeCorrected(theta(drive, zsT), magnitude(drive),
                 theta(last, zsL), magnitude(last))

\* the drive vector set_input rebuilds from the limited angle and magnitude
FromPolar(angle, mag) ==
  Vector(RoundDiv(Cos(angle) * mag, 10000), RoundDiv(Sin(angle) * mag, 10000))

\* the state Drivetrain::brake gives module i
BrakeState(i) == StateStop(StateFromVector(positions[i], 1))

\* the targets of Drivetrain::brake
BrakeTargets == <<BrakeState(1), BrakeState(2), BrakeState(3), BrakeState(4)>>

(***************************************************************************)
(* The state.                                                              *)
(*   modules      Drivetrain::modules, each with the references its two    *)
(*                motor controllers were last given                        *)
(*   last_drive   Drivetrain::last_drive                                   *)
(*   angle_limit  the value Drivetrain::angle_limit holds                  *)
(*   mag_limit    the value Drivetrain::mag_limit holds                    *)
(*   lock         the holder of Robot::drivetrain (a ControlLock)          *)
(*   teleop       the position of the future of get_teleop_future          *)
(*   brake_task   the position of the task create_bindings spawns          *)
(*   call         the last call of set_input or brake: its arguments, the  *)
(*                values it computed and the modules before it             *)
(*   pure         the arguments and the result of a function of types.rs   *)
(*                applied on its own                                       *)
(*   cycles       the iterations of the teleop loop so far                 *)
(*   presses      the presses of the X button so far                       *)
(***************************************************************************)
VARIABLES modules, last_drive, angle_limit, mag_limit, lock, teleop,
          brake_task, call, pure, cycles, presses

vars ==
  <<modules, last_drive, angle_limit, mag_limit, lock, teleop, brake_task,
    call, pure, cycles, presses>>

drivetrain_vars == <<modules, last_drive, angle_limit, mag_limit>>

task_vars == <<lock, teleop, brake_task, call>>

\* the readings of the absolute turn encoders when the modules are built
StartAngles == {0, PI}

\* the left stick: (left_x, left_y)
Sticks == {<<0, 0>>, <<1, 0>>, <<0, 1>>, <<-1, 0>>, <<0, -1>>}

\* the right stick: right_x
RightX == {0, 1}

\* the readings of the gyro
Yaws == {0, HalfPi}

NoCall ==
  [op |-> "none", ok |-> TRUE, requested |-> ZeroVector, turn_rate |-> 0,
   yaw |-> 0, last_before |-> ZeroVector, target_mag |-> 0,
   raw_drive |-> ZeroVector,
   vecs |-> <<ZeroVector, ZeroVector, ZeroVector, ZeroVector>>,
   before |-> <<SwerveState(0, 0), SwerveState(0, 0),
                SwerveState(0, 0), SwerveState(0, 0)>>]

NoPure == [fn |-> "none", a |-> 0, b |-> 0, s |-> 0, res |-> SwerveState(0, 0)]

\* Drivetrain::failable_default and Robot::failable_default
NewDrivetrain(start) ==
  /\ modules = [i \in Modules |-> NewModule(start[i], ANGLE_OFFSETS[i])]
  /\ last_drive = ZeroVector
  /\ angle_limit = 0
  /\ mag_limit = 0

Init ==
  /\ \E a \in StartAngles : NewDrivetrain([i \in Modules |-> a])
  /\ lock = "free"
  /\ teleop = "running"
  /\ brake_task = "wait_press"
  /\ call = NoCall
  /\ pure = NoPure
  /\ cycles = 0
  /\ presses = 0

CurrentStates ==
  <<modules[1].current_state, modules[2].current_state,
    modules[3].current_state, modules[4].current_state>>

\* the guard dropped as soon as brake() has returned
GuardDroppedAfterBrake(ok) == "free"

\* create_bindings, lines 49 to 55: the holder of the lock once brake() has
\* returned.  The guard lives until drop(drivetrain), after released.await;
\* the ? of brake()? ends the task and drops it at once
GuardAfterBrake(ok) == IF ok THEN "brake" ELSE "free"

\* ControlLock::lock().await completes: nobody holds the guard
LockAvailable == lock = "free"

(***************************************************************************)
(* lib.rs: get_teleop_future.  One iteration of the loop: it takes the     *)
(* lock, calls set_input and drops the guard at the end of the loop body;  *)
(* yield_now() is not awaited, so nothing runs in between.                 *)
(***************************************************************************)
TeleopCycle(stick, rx, yaw) ==
  /\ teleop = "running"
  /\ LockAvailable
  /\ cycles < MaxCycles
  /\ cycles' = cycles + 1
  /\ \E drive \in {Vector(STICK_SPEED * stick[1], STICK_SPEED * stick[2])},
        turn_rate \in {TwoPi * rx} :
       \E zsT \in ZeroSigns(drive), zsL \in ZeroSigns(last_drive) :
         \E sh \in {Shape(drive, last_drive, zsT, zsL)} :
           \E astep \in AngleSteps(sh.last_mag), mstep \in MagSteps :
             \E angle \in {SlewApply(angle_limit, sh.target_angle, astep)},
                mag \in {SlewApply(mag_limit, sh.target_mag, mstep)} :
               \E nd \in {FromPolar(angle, mag)} :
                 \E vecs \in {ModuleVectors(nd, turn_rate, yaw)} :
                   \E zs \in ZeroSignChoices(vecs) :
                     \E states \in {Optimized(modules, Targets(vecs, zs))} :
                       \E f \in Failures :
                         /\ angle_limit' = angle
                         /\ mag_limit' = mag
                         /\ last_drive' = nd
                         /\ modules' = CommandAll(modules, states, f)
                         /\ teleop' = IF f.at = 0 THEN "running" ELSE "failed"
                         /\ call' = [op |-> "set_input", ok |-> f.at = 0,
                                     requested |-> drive, turn_rate |-> turn_rate,
                                     yaw |-> yaw, last_before |-> last_drive,
                                     target_mag |-> sh.target_mag,
                                     raw_drive |-> nd, vecs |-> vecs,
                                     before |-> CurrentStates]
  /\ UNCHANGED <<lock, brake_task, pure, presses>>

\* a read of the controller (left_x, left_y, right_x) returns an error: the
\* future ends before set_input is called
TeleopControllerError ==
  /\ teleop = "running"
  /\ LockAvailable
  /\ teleop' = "failed"
  /\ UNCHANGED <<drivetrain_vars, lock, brake_task, call, pure, cycles, presses>>

(***************************************************************************)
(* lib.rs: create_bindings, the brake task.                                *)
(***************************************************************************)
\* controller.x().await: the X button is pressed
BrakePressed ==
  /\ brake_task = "wait_press"
  /\ presses < MaxPresses
  /\ presses' = presses + 1
  /\ brake_task' = "wait_lock"
  /\ UNCHANGED <<drivetrain_vars, lock, teleop, call, pure, cycles>>

\* drivetrain.lock().await, then brake()?: on an error the task ends and the
\* guard is dropped
BrakeLocked ==
  /\ brake_task = "wait_lock"
  /\ LockAvailable
  /\ \E states \in {Optimized(modules, BrakeTargets)} :
       \E f \in Failures :
         /\ modules' = CommandAll(modules, states, f)
         /\ call' = [NoCall EXCEPT !.op = "brake", !.ok = (f.at = 0),
                                   !.before = CurrentStates]
         /\ brake_task' = IF f.at = 0 THEN "holding" ELSE "failed"
         /\ lock' = GuardAfterBrake(f.at = 0)
  /\ UNCHANGED <<last_drive, angle_limit, mag_limit, teleop, pure, cycles, presses>>

\* released.await, then drop(drivetrain): the X button is released
BrakeReleased ==
  /\ brake_task = "holding"
  /\ brake_task' = "wait_press"
  /\ lock' = "free"
  /\ UNCHANGED <<drivetrain_vars, teleop, call, pure, cycles, presses>>

\* x().await or released.await returns an error: the task ends, and the guard
\* it may hold is dropped
BrakeControllerError ==
  /\ brake_task \in {"wait_press", "holding"}
  /\ brake_task' = "failed"
  /\ lock' = "free"
  /\ UNCHANGED <<drivetrain_vars, teleop, call, pure, cycles, presses>>

Next ==
  \/ \E stick \in Sticks, rx \in RightX, yaw \in Yaws : TeleopCycle(stick, rx, yaw)
  \/ TeleopControllerError
  \/ BrakePressed
  \/ BrakeLocked
  \/ BrakeReleased
  \/ BrakeControllerError

Spec == Init /\ [][Next]_vars

(***************************************************************************)
(* The functions of types.rs applied on their own: the arguments are drawn *)
(* at the start, one function is applied to them, and pure holds the       *)
(* result.  The drivetrain stays as it was built.                          *)
(***************************************************************************)
\* every eighth of a turn from -MaxTurns to MaxTurns turns
PureAngles == {(HalfPi \div 2) * k : k \in (-8 * MaxTurns)..(8 * MaxTurns)}

\* every m/s from -MaxSpeed to MaxSpeed m/s, in cm/s
PureSpeeds == {100 * k : k \in (-MaxSpeed)..MaxSpeed}

PureInit ==
  /\ NewDrivetrain([i \in Modules |-> 0])
  /\ lock = "free"
  /\ teleop = "running"
  /\ brake_task = "wait_press"
  /\ call = NoCall
  /\ cycles = 0
  /\ presses = 0
  /\ \E a \in PureAngles, b \in PureAngles, sp \in PureSpeeds :
       pure = [fn |-> "input", a |-> a, b |-> b, s |-> sp,
               res |-> [a |-> 0, b |-> 0, s |-> 0]]

\* x.normalize(), and the result normalized again
ApplyNormalize ==
  /\ pure.fn = "input"
  /\ pure' = [pure EXCEPT !.fn = "normalize",
                          !.res = [a |-> normalize(pure.a),
                                   b |-> normalize(normalize(pure.a)),
                                   s |-> 0]]
  /\ UNCHANGED <<drivetrain_vars, task_vars, cycles, presses>>

\* RadianExt::optimize(a, b)
ApplyRadianOptimize ==
  /\ pure.fn = "input"
  /\ \E o \in {RadianOptimize(pure.a, pure.b)} :
       pure' = [pure EXCEPT !.fn = "optimize",
                            !.res = [a |-> o[1], b |-> o[2], s |-> 0]]
  /\ UNCHANGED <<drivetrain_vars, task_vars, cycles, presses>>

\* SwerveState::optimize(target, previous): the target has angle a and speed
\* s, the previous state angle b
ApplyStateOptimize ==
  /\ pure.fn = "input"
  /\ \E o \in {StateOptimize(SwerveState(pure.a, pure.s), SwerveState(pure.b, 0))} :
       pure' = [pure EXCEPT !.fn = "state_optimize",
                            !.res = [a |-> o.angle, b |-> pure.b, s |-> o.drive]]
  /\ UNCHANGED <<drivetrain_vars, task_vars, cycles, presses>>

PureNext == ApplyNormalize \/ ApplyRadianOptimize \/ ApplyStateOptimize

PureSpec == PureInit /\ [][PureNext]_vars

(***************************************************************************)
(* The claims.                                                             *)
(***************************************************************************)
\* the distance between two angles on the circle, 0 .. PI
AngularDistance(a, b) == Min((a - b) % TwoPi, (b - a) % TwoPi)

\* the shortest signed delta from b to a, -PI .. PI
SignedDelta(a, b) == ((a - b + PI) % TwoPi) - PI

\* two angles that are the same angle modulo 2 PI
SameAngle(a, b) == (a - b) % TwoPi = 0

\* two vectors that point in exactly opposite directions
Opposite(v, w) ==
  /\ v.x * w.y - v.y * w.x = 0
  /\ v.x * w.x + v.y * w.y < 0

\* the angles from the robot centre to the four modules: 45, 315, 135 and
\* 225 degrees
BrakeAngles ==
  <<HalfPi \div 2, TwoPi - HalfPi \div 2, PI - HalfPi \div 2, PI + HalfPi \div 2>>

\* C1: the angle SwerveState::optimize returns is at most PI/2 away from the
\* previous angle on the circle, for every target and previous state.
C1_OptimizeWithinQuarterTurn ==
  pure.fn = "state_optimize" => AngularDistance(pure.res.a, pure.b) <= HalfPi

\* C2: when set_input_raw runs with turn rate 0 and heading 0, the velocity
\* vector it computes for every module is the drive vector it was given.
C2_StraightDriveVectors ==
  (call.op = "set_input" /\ call.ok /\ call.turn_rate = 0 /\ call.yaw = 0)
    => \A i \in Modules : call.vecs[i] = call.raw_drive

\* C3: RadianExt::optimize(a, b) returns as its second component an angle
\* that is b modulo 2 PI and at most PI away from the first component.
C3_RepresentativeWithinPi ==
  pure.fn = "optimize"
    => /\ SameAngle(pure.res.b, pure.b)
       /\ Abs(pure.res.a - pure.res.b) <= PI

\* C4: normalize(x) lies in [0, 2 PI) and normalizing it again changes
\* nothing.
C4_NormalizeRangeIdempotent ==
  pure.fn = "normalize"
    => /\ 0 <= pure.res.a
       /\ pure.res.a < TwoPi
       /\ pure.res.b = pure.res.a

\* the case of C5: set_input ran with the last drive at or above the cutoff
\* and the requested drive pointing exactly the other way
ReversalRequested ==
  /\ call.op = "set_input"
  /\ magnitude(call.last_before) >= LOW_SPEED_CUTOFF
  /\ Opposite(call.requested, call.last_before)

\* C5 as stated: in that case the target magnitude handed to the magnitude
\* limiter is (approximately) zero.
C5_ReversalTargetZero ==
  ReversalRequested => Abs(call.target_mag) < LOW_SPEED_CUTOFF

\* C5, amended: in that case the target magnitude handed to the magnitude
\* limiter is the requested magnitude negated (the derating factor is 1).
C5_ReversalTargetNegated ==
  ReversalRequested => call.target_mag = -magnitude(call.requested)

C5_Witness ==
  /\ ReversalRequested
  /\ call.target_mag = -STICK_SPEED

\* C6: while the brake task holds the guard (from brake() to the release of
\* the button) it holds the lock and no step changes a module or is a call
\* of set_input, and whenever the task does not hold the guard the lock is
\* free for the teleop loop.
C6_BrakeHoldsLock ==
  [][/\ brake_task = "holding" => (lock = "brake" /\ modules' = modules /\ call' = call)
     /\ brake_task' # "holding" => lock' = "free"]_vars

C6_Witness ==
  /\ brake_task = "holding"
  /\ teleop = "running"
  /\ cycles >= 1
  /\ cycles < MaxCycles
  /\ \E i \in Modules : call.before[i].drive # 0

\* a module whose drive motor was last commanded speed zero
Stopped(i) == modules[i].drive_ref = 0

\* C7: once a set_target error has ended a set_input or brake cycle and
\* both tasks have run to their end, every module has been commanded to a
\* stop.
C7_FailSafeStop ==
  (~call.ok /\ teleop = "failed" /\ brake_task = "failed")
    => \A i \in Modules : Stopped(i)

\* C8: after brake succeeds every module has been commanded the angle from
\* the robot centre to its position (modulo 2 PI) at speed zero.
C8_BrakeTargets ==
  (call.op = "brake" /\ call.ok)
    => \A i \in Modules :
         /\ SameAngle(modules[i].current_state.angle, BrakeAngles[i])
         /\ SameAngle(modules[i].turn_ref, BrakeAngles[i])
         /\ modules[i].current_state.drive = 0
         /\ Stopped(i)

C8_Witness ==
  /\ call.op = "brake"
  /\ call.ok
  /\ \E i \in Modules :
       /\ call.before[i].drive # 0
       /\ ~SameAngle(call.before[i].angle, BrakeAngles[i])
  /\ \E i \in Modules : modules[i].current_state.angle # BrakeAngles[i]

\* C9: when the velocity vector set_input computes for a module is the zero
\* vector, the angle commanded to the module is the angle it was last
\* commanded (modulo 2 PI).
C9_ZeroVectorKeepsAngle ==
  (call.op = "set_input" /\ call.ok)
    => \A i \in Modules :
         call.vecs[i] = ZeroVector
           => SameAngle(modules[i].current_state.angle, call.before[i].angle)

\* C10: SwerveState::optimize returns the target unchanged when the shortest
\* signed delta to the previous angle is at most PI/2, and otherwise the
\* angle target.angle - PI (normalized) with the speed negated; either way
\* the result is the same planar velocity as the target.
C10_OptimizeFlipsByPi ==
  pure.fn = "state_optimize"
    => /\ IF Abs(SignedDelta(pure.a, pure.b)) <= HalfPi
          THEN pure.res.a = pure.a /\ pure.res.s = pure.s
          ELSE SameAngle(pure.res.a, pure.a - PI) /\ pure.res.s = -pure.s
       /\ VectorFromState(SwerveState(pure.res.a, pure.res.s))
            = VectorFromState(SwerveState(pure.a, pure.s))
====
